---------------------------- MODULE Spec2Model ----------------------------
(***************************************************************************)
(* Model of the ConstructionDelayDetector ML services.                     *)
(*                                                                         *)
(*   - ml_system/ml_api.py     extract_features_from_project and the Flask *)
(*                             handlers of the ml_system server            *)
(*   - ml_system/train_model.py ConstructionDelayPredictor.predict and its *)
(*                             confidence helpers                          *)
(*   - ml_training/ml_api.py, ml_training/simple_ml_api.py and             *)
(*     ml_training/delay_predictor.py: the two ml_training servers and the *)
(*     predictor they share                                                *)
(*                                                                         *)
(* Numbers.  Python floats are modelled in fixed point.  A feature value   *)
(* is an integer number of millionths (Micro) while it is computed and an  *)
(* integer number of thousandths after round(x, 3).  Times are integer     *)
(* ticks, TicksPerDay ticks to a day, so that timedelta.days (a floor) is  *)
(* a real truncation.  TLC integers are 32 bit: every product is arranged  *)
(* to stay below 2^31.                                                     *)
(***************************************************************************)
EXTENDS Integers, Sequences, FiniteSets, TLC

VARIABLES
    project,    \* the project record of the request (a dict: a function on its keys)
    now,        \* the wall clock read by datetime.now(), in ticks
    calls,      \* <<first call, latest call>> of extract_features_from_project on project
    phase,      \* ml_system process: "startup" until the models are loaded, then "serving"
    artifact,   \* the pickles on disk: delay_model.pkl, cost_model.pkl, scaler.pkl
    predictor,  \* the process-wide ConstructionDelayPredictor of ml_system
    features,   \* the argument of predictor.predict
    prediction, \* what the latest predict or predict_delay call returned or raised
    server,     \* which serving process this is: "ml_system", "ml_training" or "simple"
    disk,       \* ml_training files: the saved model and the dataset files
    delayPredictor, \* the process-wide predictor of the ml_training servers, or None
    model_loaded,   \* simple_ml_api.py: the module's model_loaded flag
    runs,       \* training runs started so far in the ml_training process
    atStartup,  \* the process-wide predictors as they were when serving began
    request,    \* the HTTP request handled last
    response,   \* the answer to it
    script,     \* the setup script that runs: "setup_ml", "setup_ml_system" or "none"
    step,       \* the step of its main() that runs next, "exited" after the end
    log,        \* the steps entered so far, each with what became of it
    installed,  \* setup_ml_system.py: packages installed by install_dependencies
    exit_status \* the exit status of the script, NoExit while it runs

----------------------------------------------------------------------------
(* Bounds *)

MaxNow == 10         \* the clock runs over 0..MaxNow ticks
MaxTrees == 3        \* a fitted Random Forest has 1..MaxTrees trees
MaxStages == 11      \* a fitted Gradient Boosting model has 1..MaxStages stages
MaxRetrains == 1     \* /retrain requests that reach the training code
MaxBatch == 2        \* projects in one batch request

----------------------------------------------------------------------------
(* Arithmetic helpers *)

Micro == 1000000
TicksPerDay == 2

Min(a, b) == IF a < b THEN a ELSE b
Max(a, b) == IF a > b THEN a ELSE b

\* dict.get(key, default)
Get(d, k, default) == IF k \in DOMAIN d THEN d[k] ELSE default

\* len(list)
ListLen(l) == Len(l)

\* round(): x / unit to the nearest integer, ties to even; unit is even
RoundDiv(x, unit) ==
    LET q == x \div unit
        r == x % unit
    IN  IF 2 * r < unit THEN q
        ELSE IF 2 * r > unit THEN q + 1
        ELSE IF q % 2 = 0 THEN q ELSE q + 1

\* round(x, 3): x in millionths, the result in thousandths
Round3(x) == RoundDiv(x, 1000)

\* a / b for integers a and b # 0, as a float in millionths (floor)
TrueDiv(a, b) == IF b > 0 THEN (a * Micro) \div b ELSE ((0 - a) * Micro) \div (0 - b)

----------------------------------------------------------------------------
(* Strings: a string is a tuple of one-character strings *)

UpperLetters == <<"A","B","C","D","E","F","G","H","I","J","K","L","M",
                  "N","O","P","Q","R","S","T","U","V","W","X","Y","Z">>
LowerLetters == <<"a","b","c","d","e","f","g","h","i","j","k","l","m",
                  "n","o","p","q","r","s","t","u","v","w","x","y","z">>

LowerChar(c) ==
    IF \E i \in 1..26 : UpperLetters[i] = c
    THEN LowerLetters[CHOOSE i \in 1..26 : UpperLetters[i] = c]
    ELSE c

\* str.lower()
Lower(s) == [i \in 1..Len(s) |-> LowerChar(s[i])]

\* sub in s
Contains(s, sub) ==
    \E i \in 0..(Len(s) - Len(sub)) :
        \A j \in 1..Len(sub) : s[i + j] = sub[j]

----------------------------------------------------------------------------
(* Dates.  A date string is [ok, t, zone]: ok says whether                 *)
(* datetime.fromisoformat accepts it, t is the instant in ticks and zone   *)
(* its suffix: "" (naive), "Z" or "+00:00".                                *)

\* start_date.replace('Z', '+00:00')
ReplaceZ(d) == [d EXCEPT !.zone = IF @ = "Z" THEN "+00:00" ELSE @]

\* datetime.fromisoformat(s): [err, t, aware]
FromIsoFormat(d) ==
    IF d.ok /\ d.zone \in {"", "+00:00"}
    THEN [err |-> "none", t |-> d.t, aware |-> d.zone = "+00:00"]
    ELSE [err |-> "ValueError", t |-> 0, aware |-> FALSE]

\* timedelta.days of the difference a - b of two instants
DaysMutantRoundUp(a, b) == 0 - ((b - a) \div TicksPerDay)
Days(a, b) == (a - b) \div TicksPerDay

----------------------------------------------------------------------------
(* extract_features_from_project                                           *)

DefaultBudget == 1000000

weather_risk_map ==
    << <<<<"d","e","l","h","i">>, 800000>>,
       <<<<"m","u","m","b","a","i">>, 900000>>,
       <<<<"b","a","n","g","a","l","o","r","e">>, 600000>>,
       <<<<"c","h","e","n","n","a","i">>, 800000>>,
       <<<<"k","o","l","k","a","t","a">>, 900000>>,
       <<<<"h","y","d","e","r","a","b","a","d">>, 700000>>,
       <<<<"p","u","n","e">>, 700000>>,
       <<<<"a","h","m","e","d","a","b","a","d">>, 800000>>
    >>

\* lines 80-91: the first city of the table, in table order, that occurs in the location
WeatherImpactMutantLastHit(p) ==
    LET location == Lower(Get(p, "location", <<>>))
        hits == {i \in 1..Len(weather_risk_map) : Contains(location, weather_risk_map[i][1])}
    IN  IF hits = {} THEN 700000
        ELSE weather_risk_map[CHOOSE i \in hits : \A j \in hits : i >= j][2]
WeatherImpact(p) ==
    LET location == Lower(Get(p, "location", <<>>))
        hits == {i \in 1..Len(weather_risk_map) : Contains(location, weather_risk_map[i][1])}
    IN  IF hits = {} THEN 700000
        ELSE weather_risk_map[CHOOSE i \in hits : \A j \in hits : i <= j][2]

\* lines 60-64
TotalResources(p) ==
    ListLen(Get(p, "humanResources", <<>>)) + ListLen(Get(p, "materials", <<>>))
        + ListLen(Get(p, "equipment", <<>>))

\* line 67: float(project_data.get('totalBudget', 1000000))
BudgetMutantDefaultZero(p) == Get(p, "totalBudget", 0)
Budget(p) == Get(p, "totalBudget", DefaultBudget)

\* min(1.0, budget / norm) in millionths; norm is a multiple of Micro
BudgetRatio(budget, norm) == Min(Micro, budget \div (norm \div Micro))

\* lines 68-73
ResourceAvailability(p) ==
    IF TotalResources(p) > 0
    THEN LET resource_density == Min(Micro, (TotalResources(p) * Micro) \div 15)
             budget_factor == BudgetRatio(Budget(p), 10000000)
         IN  (resource_density * 6 + budget_factor * 4) \div 10
    ELSE 500000

\* lines 76-78
ProjectComplexity(p) ==
    LET budget_complexity == BudgetRatio(Budget(p), 50000000)
        resource_complexity == Min(Micro, (TotalResources(p) * Micro) \div 20)
    IN  (budget_complexity * 6 + resource_complexity * 4) \div 10

\* line 37: float(project_data.get('currentProgress', 0)) / 100, in millionths
CurrentProgress(p) == Get(p, "currentProgress", 0) * (Micro \div 100)

\* line 41: if start_date and end_date
HasDates(p) == "startDate" \in DOMAIN p /\ "endDate" \in DOMAIN p

\* lines 50-55
ProgressEfficiency(current_progress, total_days, elapsed_days) ==
    IF total_days > 0
    THEN LET expected_progress == Min(Micro, Max(0, TrueDiv(elapsed_days, total_days)))
             progress_variance == current_progress - expected_progress
         IN  Max(100000, Min(Micro, Micro + progress_variance))
    ELSE 800000

\* lines 95-101; total_days # 0
TimelinePressure(current_progress, total_days, remaining_days) ==
    LET remaining_ratio == Max(0, TrueDiv(remaining_days, total_days))
    IN  IF remaining_ratio < 300000 /\ current_progress < 800000 THEN 800000
        ELSE IF remaining_ratio < 500000 /\ current_progress < 700000 THEN 600000
        ELSE 300000

Raise(e) == [err |-> e, features |-> <<>>]

\* lines 105-111
Features(pe, ra, pc, wi, tp) ==
    [err |-> "none",
     features |-> [progress_efficiency |-> Round3(pe),
                   resource_availability |-> Round3(ra),
                   project_complexity |-> Round3(pc),
                   weather_impact |-> Round3(wi),
                   timeline_pressure |-> Round3(tp)]]

\* the whole function, called at clock reading t
extract_features_from_project(p, t) ==
    IF HasDates(p)
    THEN LET start == FromIsoFormat(ReplaceZ(p["startDate"]))
             end == FromIsoFormat(ReplaceZ(p["endDate"]))
             total_days == Days(end.t, start.t)
             elapsed_days == Days(t, start.t)
         IN  IF start.err # "none" THEN Raise("ValueError")
             ELSE IF end.err # "none" THEN Raise("ValueError")
             \* line 47: an aware and a naive datetime cannot be subtracted
             ELSE IF start.aware # end.aware THEN Raise("TypeError")
             \* line 95 divides by total_days
             ELSE IF total_days = 0 THEN Raise("ZeroDivisionError")
             ELSE Features(ProgressEfficiency(CurrentProgress(p), total_days, elapsed_days),
                           ResourceAvailability(p), ProjectComplexity(p), WeatherImpact(p),
                           TimelinePressure(CurrentProgress(p), total_days, Days(end.t, t)))
    ELSE Features(800000, ResourceAvailability(p), ProjectComplexity(p), WeatherImpact(p),
                  400000)

----------------------------------------------------------------------------
(* ml_system/train_model.py: ConstructionDelayPredictor                    *)
(*                                                                         *)
(* A fitted Random Forest is the tuple of its trees; a tree is the value   *)
(* its single leaf predicts.  A fitted Gradient Boosting model is the      *)
(* tuple of its staged predictions.  A prediction is a rational [num, den];*)
(* an interval is [lower, upper, den].  Scaled features are thousandths.   *)

None == [kind |-> "None"]

RandomForest(trees) == [kind |-> "RandomForestRegressor", estimators_ |-> trees]
GradientBoosting(stages) == [kind |-> "GradientBoostingRegressor", staged |-> stages]

\* StandardScaler(): not fitted until fit_transform or a load
UnfittedScaler == [kind |-> "StandardScaler", fitted |-> FALSE]
FittedScaler(mean, scale) ==
    [kind |-> "StandardScaler", fitted |-> TRUE, mean_ |-> mean, scale_ |-> scale]

\* lines 23-29
feature_names == <<"progress_efficiency", "resource_availability", "project_complexity",
                   "weather_impact", "timeline_pressure">>

\* lines 19-29: __init__
NewPredictor == [delay_model |-> None, cost_model |-> None, scaler |-> UnfittedScaler]

RECURSIVE SeqSum(_)
SeqSum(xs) == IF xs = <<>> THEN 0 ELSE xs[1] + SeqSum(Tail(xs))

\* floor of the square root
RECURSIVE Isqrt(_)
Isqrt(v) ==
    IF v < 2 THEN v
    ELSE LET s == 2 * Isqrt(v \div 4)
         IN  IF (s + 1) * (s + 1) <= v THEN s + 1 ELSE s

\* digits kept of a standard deviation: np.std is a multiple of 1 / (StdPrecision * n)
StdPrecision == 100

\* np.mean(xs)
NpMean(xs) == [num |-> SeqSum(xs), den |-> Len(xs)]

\* np.std(xs): the root of the mean of the squared deviations from the mean.
\* With n = len(xs) and S = sum(xs) the deviations are (n*x - S) / n.
NpStdMutantSample(xs) ==
    LET n == Len(xs)
        S == SeqSum(xs)
        dev2 == SeqSum([i \in 1..n |-> (n * xs[i] - S) * (n * xs[i] - S)])
    IN  [num |-> Isqrt((dev2 \div Max(1, n - 1)) * StdPrecision * StdPrecision),
         den |-> StdPrecision * n]
NpStd(xs) ==
    LET n == Len(xs)
        S == SeqSum(xs)
        dev2 == SeqSum([i \in 1..n |-> (n * xs[i] - S) * (n * xs[i] - S)])
    IN  [num |-> Isqrt((dev2 \div n) * StdPrecision * StdPrecision),
         den |-> StdPrecision * n]

\* line 157: [tree.predict(features)[0] for tree in self.delay_model.estimators_]
TreePredictions(model) == model.estimators_

\* line 138: RandomForestRegressor.predict averages the trees
ForestPredict(model) == NpMean(model.estimators_)

\* line 162: list(self.cost_model.staged_predict(features))
StagedPredict(model) == model.staged

\* line 139: GradientBoostingRegressor.predict is the final stage
BoostingPredict(model) == [num |-> model.staged[Len(model.staged)], den |-> 1]

\* line 163: staged_preds[-10:]
LastStagesMutantAll(staged_preds) == staged_preds
LastStages(staged_preds) ==
    IF Len(staged_preds) <= 10 THEN staged_preds
    ELSE SubSeq(staged_preds, Len(staged_preds) - 9, Len(staged_preds))

\* lines 166-170: [max(0, mean_pred - 1.96 * std), mean_pred + 1.96 * std]
\* over the common denominator 100 * std.den, which mean_pred.den divides
ConfidenceIntervalMutantNoFloor(mean_pred, std) ==
    LET den == 100 * std.den
        mean == mean_pred.num * (den \div mean_pred.den)
    IN  [lower |-> mean - 196 * std.num,
         upper |-> mean + 196 * std.num,
         den |-> den]
ConfidenceInterval(mean_pred, std) ==
    LET den == 100 * std.den
        mean == mean_pred.num * (den \div mean_pred.den)
    IN  [lower |-> Max(0, mean - 196 * std.num),
         upper |-> mean + 196 * std.num,
         den |-> den]

\* lines 153-170
_calculate_confidence(self, model_type) ==
    IF model_type = "delay"
    THEN LET tree_predictions == TreePredictions(self.delay_model)
         IN  ConfidenceInterval(NpMean(tree_predictions), NpStd(tree_predictions))
    ELSE LET staged_preds == StagedPredict(self.cost_model)
         IN  ConfidenceInterval([num |-> staged_preds[Len(staged_preds)], den |-> 1],
                                NpStd(LastStages(staged_preds)))

\* line 181: the penalty of one feature value
PenaltyMutantUpperOnly(value) == IF value > 900 THEN 5 ELSE 0
Penalty(value) == IF value < 100 \/ value > 900 THEN 5 ELSE 0

\* lines 176-182: the loop over features[0]
RECURSIVE ReduceConfidence(_, _)
ReduceConfidence(base_confidence, feature_values) ==
    IF feature_values = <<>> THEN base_confidence
    ELSE ReduceConfidence(base_confidence - Penalty(feature_values[1]), Tail(feature_values))

\* lines 172-184
_calculate_overall_confidence(feature_values) ==
    Max(60, Min(95, ReduceConfidence(85, feature_values)))

\* lines 129-130: the dict every caller passes is read in feature_names order
FeatureArray(f) == [i \in 1..Len(feature_names) |-> f[feature_names[i]]]

\* StandardScaler.transform: (x - mean_) / scale_ per column
Transform(scaler, row) ==
    [i \in 1..Len(row) |-> ((row[i] - scaler.mean_[i]) * 1000) \div scaler.scale_[i]]

PredictRaise(e) == [status |-> "raised", err |-> e]

Rational(n, d) == [num |-> n, den |-> d]

\* lines 123-151
predict(self, f) ==
    IF self.delay_model = None \/ self.cost_model = None
    THEN PredictRaise("ValueError: Models not trained yet!")
    ELSE IF ~self.scaler.fitted THEN PredictRaise("NotFittedError")
    ELSE LET features_scaled == Transform(self.scaler, FeatureArray(f))
             delay_pred == ForestPredict(self.delay_model)
             cost_pred == BoostingPredict(self.cost_model)
         IN  [status |-> "returned",
              features_scaled |-> features_scaled,
              predicted_delay_days |-> Rational(Max(0, delay_pred.num), delay_pred.den),
              predicted_additional_cost |-> Rational(Max(0, cost_pred.num), cost_pred.den),
              delay_confidence_interval |-> _calculate_confidence(self, "delay"),
              cost_confidence_interval |-> _calculate_confidence(self, "cost"),
              model_confidence |-> _calculate_overall_confidence(features_scaled)]

\* lines 193-198: joblib.load raises on the first missing file
load_models(self, files) ==
    IF files.delay_model = None THEN self
    ELSE IF files.cost_model = None THEN [self EXCEPT !.delay_model = files.delay_model]
    ELSE IF files.scaler = None
         THEN [self EXCEPT !.delay_model = files.delay_model, !.cost_model = files.cost_model]
    ELSE [delay_model |-> files.delay_model, cost_model |-> files.cost_model,
          scaler |-> files.scaler]

----------------------------------------------------------------------------
(* ml_training/delay_predictor.py: ConstructionDelayPredictor              *)
(*                                                                         *)
(* A training run is [id, best, schema, cv_mae]: its number, the name of   *)
(* the model it selects, the column set of its dataset and the selected    *)
(* model's cross-validation MAE.  Every field of the predictor holds the   *)
(* run that produced its value; NoRun stands for the constructor's empty   *)
(* value.  Delays and MAEs are hundredths of a day, reported values are    *)
(* tenths (round(x, 1)), percentages are tenths of a percent.              *)

NoRun == [id |-> 0, best |-> "None", schema |-> 0, cv_mae |-> 0]

ModelNames == {"random_forest", "gradient_boost"}

\* lines 13-21: __init__
NewDelayPredictor ==
    [kind |-> "ConstructionDelayPredictor",
     models |-> NoRun,
     best_model |-> NoRun,
     best_model_name |-> NoRun,
     scaler |-> NoRun,
     label_encoders |-> NoRun,
     feature_names |-> NoRun,
     feature_importance |-> [random_forest |-> NoRun, gradient_boost |-> NoRun],
     training_history |-> NoRun]

\* lines 242-255: load_model of a file saved by run r
load_model(self, r) ==
    [self EXCEPT !.best_model = r, !.best_model_name = r, !.scaler = r,
                 !.label_encoders = r, !.feature_names = r,
                 !.feature_importance = [random_forest |-> r, gradient_boost |-> r],
                 !.training_history = r]

\* where a training run can raise: pd.read_csv (line 26), df[target_col]
\* (line 42), train_test_split or scaler.fit_transform (lines 78-83), the fit
\* of the first or of the second model (line 98), joblib.dump (line 239)
FailPoints == {"none", "read_csv", "target", "split", "fit_first", "fit_second", "save"}

\* lines 23-50: load_and_preprocess_data
load_and_preprocess_data(self, r, fail) ==
    IF fail = "read_csv" THEN self
    ELSE IF fail = "target" THEN [self EXCEPT !.label_encoders = r]
    ELSE [self EXCEPT !.label_encoders = r, !.feature_names = r]

\* lines 52-71: initialize_models
initialize_models(self, r) == [self EXCEPT !.models = r]

\* lines 73-151: train_models
train_models(self, r, fail) ==
    IF fail = "split" THEN self
    ELSE IF fail = "fit_first" THEN [self EXCEPT !.scaler = r]
    ELSE IF fail = "fit_second"
         THEN [self EXCEPT !.scaler = r, !.feature_importance.random_forest = r]
    ELSE [self EXCEPT !.scaler = r,
                      !.feature_importance = [random_forest |-> r, gradient_boost |-> r],
                      !.best_model = r, !.best_model_name = r, !.training_history = r]

\* ml_api.py lines 139-144 (and 45-48): load_and_preprocess_data,
\* initialize_models, train_models, save_model; the predictor as the first
\* exception, if any, leaves it
TrainingRun(self, r, fail) ==
    IF fail \in {"read_csv", "target"} THEN load_and_preprocess_data(self, r, fail)
    ELSE train_models(initialize_models(load_and_preprocess_data(self, r, fail), r), r, fail)

\* round(x, 1): x in hundredths, the result in tenths
Round1(x) == RoundDiv(x, 10)

\* line 215: max(60, min(95, 100 - (model_mae / max(1, prediction)) * 100)),
\* in thousandths of a percent
ConfidencePct(raw, model_mae) ==
    Max(60000, Min(95000, 100000 - (model_mae * 100000) \div Max(100, raw)))

\* the JSON values a client sends as project features: the object without
\* members ("empty"), numeric features ("numeric"), a feature that is not a
\* number ("text"), an array ("list") or null ("null")
ProjectKinds == {"empty", "numeric", "text", "list", "null"}

\* lines 169-224 without the object itself: what predict_delay returns or
\* raises; raw is what best_model.predict returns for the project
PredictDelayResultMutantLateCheck(self, project_features, raw) ==
    IF project_features \in {"list", "null"}
    THEN [status |-> "raised", err |-> "AttributeError"]
    ELSE IF self.best_model = NoRun
    THEN [status |-> "raised", err |-> "ValueError"]
    ELSE [status |-> "raised", err |-> "ValueError"]
PredictDelayResult(self, project_features, raw) ==
    IF self.best_model = NoRun
    THEN [status |-> "raised", err |-> "ValueError"]
    \* lines 178 and 183: None has no copy(), a list has copy() but no columns
    ELSE IF project_features \in {"list", "null"}
    THEN [status |-> "raised", err |-> "AttributeError"]
    \* line 205: the model was fitted on the columns of its own dataset
    ELSE IF self.feature_names.schema # self.best_model.schema
    THEN [status |-> "raised", err |-> "ValueError"]
    \* line 205: a value that is not a number
    ELSE IF project_features = "text"
    THEN [status |-> "raised", err |-> "ValueError"]
    ELSE LET model_mae == self.training_history.cv_mae
         IN  [status |-> "returned",
              predicted_delay_days |-> Max(0, Round1(raw)),
              confidence_interval |-> <<Round1(Max(0, raw - model_mae)), Round1(raw + model_mae)>>,
              confidence_percentage |-> RoundDiv(ConfidencePct(raw, model_mae), 100),
              model_used |-> self.best_model_name.best,
              model_mae |-> model_mae]

\* lines 169-224: predict_delay as a method: the object it leaves and its result.
\* No line of it assigns to a field of self.
predict_delayMutantRefit(self, project_features, raw) ==
    [self |-> [self EXCEPT !.label_encoders = NoRun],
     result |-> PredictDelayResult(self, project_features, raw)]
predict_delay(self, project_features, raw) ==
    [self |-> self, result |-> PredictDelayResult(self, project_features, raw)]

----------------------------------------------------------------------------
(* The fitted models and the requests the prediction specification draws   *)
(* from                                                                    *)

TreeValues == {0 - 20, 0, 10, 30}
StageValues == {0 - 10, 30}
FeatureValues == {50, 100, 500, 900, 950}

SeqsUpTo(S, n) == UNION {[1..k -> S] : k \in 1..n}

All(v) == [i \in 1..Len(feature_names) |-> v]

Scalers == {FittedScaler(All(0), All(1000)),
            FittedScaler(All(500), All(250)),
            FittedScaler(<<600, 500, 400, 700, 500>>, <<200, 250, 250, 100, 200>>)}

Files(dm, cm, sc) == [delay_model |-> dm, cost_model |-> cm, scaler |-> sc]

\* the request of train_model.main
TestFeatures ==
    [progress_efficiency |-> 700, resource_availability |-> 800,
     project_complexity |-> 600, weather_impact |-> 500, timeline_pressure |-> 400]

DictFeatures ==
    {[progress_efficiency |-> a, resource_availability |-> b,
      project_complexity |-> c, weather_impact |-> d, timeline_pressure |-> e] :
        a \in FeatureValues, b \in FeatureValues, c \in FeatureValues,
        d \in FeatureValues, e \in FeatureValues}

\* <<files on disk, request>>: every request under every scaler, every forest,
\* every boosting model, and the incomplete sets of files
PredictCases ==
    {<<Files(RandomForest(<<10, 30>>), GradientBoosting(<<10, 30>>), sc), f>> :
        sc \in Scalers, f \in DictFeatures}
    \cup {<<Files(RandomForest(t), GradientBoosting(<<30>>), FittedScaler(All(0), All(1000))), TestFeatures>> :
        t \in SeqsUpTo(TreeValues, MaxTrees)}
    \cup {<<Files(RandomForest(<<10>>), GradientBoosting(g), FittedScaler(All(0), All(1000))), TestFeatures>> :
        g \in SeqsUpTo(StageValues, MaxStages)}
    \cup {<<Files(None, None, None), TestFeatures>>,
          <<Files(RandomForest(<<10>>), None, None), TestFeatures>>,
          <<Files(RandomForest(<<10>>), GradientBoosting(<<30>>), None), TestFeatures>>}

NoPrediction == [status |-> "none"]


----------------------------------------------------------------------------
(* The project records the feature specification draws from                *)

EmptyRecord == [k \in {} |-> 0]

Opt(key, values) == {EmptyRecord} \cup {(key :> v) : v \in values}

List(n) == [i \in 1..n |-> "r"]

IsoDate(t, zone) == [ok |-> TRUE, t |-> t, zone |-> zone]
BadDate == [ok |-> FALSE, t |-> 0, zone |-> ""]

StartDates == {IsoDate(2, ""), IsoDate(2, "Z"), BadDate}
EndDates == {IsoDate(0, ""), IsoDate(2, ""), IsoDate(3, ""), IsoDate(9, ""), IsoDate(8, "Z")}

Locations == { <<"M","u","m","b","a","i">>,
               <<"P","a","r","i","s">>,
               <<"P","u","n","e"," ","D","e","l","h","i">>,
               <<"N","E","W"," ","D","E","L","H","I">> }

\* records that vary the dates and the progress
DateProjects ==
    { a @@ b @@ c : a \in Opt("currentProgress", {50, 75, 150}),
                    b \in Opt("startDate", StartDates),
                    c \in Opt("endDate", EndDates) }

\* records without dates that vary budget, resources and location
ResourceProjects ==
    { a @@ b @@ c @@ d @@ e @@ f :
        a \in Opt("currentProgress", {50}),
        b \in Opt("totalBudget", {0 - 10000000, 1000000, 5000000, 100000000}),
        c \in Opt("humanResources", {List(16)}),
        d \in Opt("materials", {List(1)}),
        e \in Opt("equipment", {List(4)}),
        f \in Opt("location", Locations) }

Projects == DateProjects \cup ResourceProjects

vars == <<project, now, calls, phase, artifact, predictor, features, prediction,
          server, disk, delayPredictor, model_loaded, runs, atStartup, request, response,
          script, step, log, installed, exit_status>>

featureVars == <<project, now, calls>>
callVars == <<features, prediction>>
systemVars == <<artifact, predictor>>
trainingVars == <<disk, delayPredictor, model_loaded, runs>>
httpVars == <<request, response>>
setupVars == <<script, step, log, installed, exit_status>>

NoRequest == [endpoint |-> "none", body |-> "none"]
NoResponse == [status |-> 0, body |-> "none", exception |-> "none", payload |-> <<>>]

\* saved by an earlier run of the training script
SavedRun == [id |-> 1, best |-> "random_forest", schema |-> 1, cv_mae |-> 1250]
\* a model file joblib.load cannot read
CorruptFile == [id |-> 0 - 1, best |-> "None", schema |-> 0, cv_mae |-> 0]

NoDisk == [model |-> NoRun, dataset |-> 0, other |-> 0]

FeatureVarsIdle ==
    /\ project = EmptyRecord
    /\ now = 0
    /\ calls = <<>>

CallVarsIdle ==
    /\ features = TestFeatures
    /\ prediction = NoPrediction

SystemVarsIdle ==
    /\ artifact = Files(None, None, None)
    /\ predictor = NewPredictor

TrainingVarsIdle ==
    /\ disk = NoDisk
    /\ delayPredictor = None
    /\ model_loaded = FALSE
    /\ runs = 0

HttpVarsIdle ==
    /\ atStartup = <<NewPredictor, None>>
    /\ request = NoRequest
    /\ response = NoResponse

\* the process has not ended
NoExit == 0 - 1

SetupVarsIdle ==
    /\ script = "none"
    /\ step = "none"
    /\ log = <<>>
    /\ installed = 0
    /\ exit_status = NoExit

----------------------------------------------------------------------------
(* Feature specification: a client calls extract_features_from_project on  *)
(* one record while the clock runs.                                        *)

InitFeatures ==
    /\ project \in Projects
    /\ now = 0
    /\ calls = <<>>
    /\ server = "ml_system"
    /\ phase = "startup"
    /\ CallVarsIdle
    /\ SystemVarsIdle
    /\ TrainingVarsIdle
    /\ HttpVarsIdle
    /\ SetupVarsIdle

\* time passes
Tick ==
    /\ now < MaxNow
    /\ now' = now + 1
    /\ UNCHANGED <<project, calls, phase, server, setupVars, atStartup,
                   callVars, systemVars, trainingVars, httpVars>>

\* one call of extract_features_from_project(project)
ExtractFeatures ==
    LET c == [at |-> now, result |-> extract_features_from_project(project, now)]
    IN  /\ calls' = IF calls = <<>> THEN <<c>> ELSE <<calls[1], c>>
        /\ UNCHANGED <<project, now, phase, server, setupVars, atStartup,
                       callVars, systemVars, trainingVars, httpVars>>

NextFeatures == Tick \/ ExtractFeatures

SpecFeatures == InitFeatures /\ [][NextFeatures]_vars

----------------------------------------------------------------------------
(* Prediction specification: the ml_system process loads its models and    *)
(* then answers predict calls.                                             *)

InitPredict ==
    /\ FeatureVarsIdle
    /\ server = "ml_system"
    /\ phase = "startup"
    /\ predictor = NewPredictor
    /\ \E c \in PredictCases : artifact = c[1] /\ features = c[2]
    /\ prediction = NoPrediction
    /\ TrainingVarsIdle
    /\ HttpVarsIdle
    /\ SetupVarsIdle

\* what train_model.py leaves on disk
TrainedFiles ==
    Files(RandomForest(<<10, 30>>), GradientBoosting(<<10, 30>>), FittedScaler(All(500), All(250)))

\* the three joblib.load calls of load_models succeed
Complete(files) == None \notin {files.delay_model, files.cost_model, files.scaler}

\* ml_system/ml_api.py lines 20-28 and 250-260: load_models() at startup;
\* when it fails train_model.py is run, which may or may not leave its three
\* files, and load_models() is tried once more; the service starts whether
\* or not the models are loaded
StartSystem ==
    /\ server = "ml_system"
    /\ phase = "startup"
    /\ IF Complete(artifact)
       THEN /\ artifact' = artifact
            /\ predictor' = load_models(predictor, artifact)
       ELSE \E trained \in {artifact, TrainedFiles} :
            /\ artifact' = trained
            /\ predictor' = load_models(load_models(predictor, artifact), trained)
    /\ phase' = "serving"
    /\ atStartup' = <<predictor', delayPredictor>>
    /\ UNCHANGED <<featureVars, callVars, server, setupVars, trainingVars, httpVars>>

\* predictor.predict(features)
Predict ==
    /\ server = "ml_system"
    /\ phase = "serving"
    /\ prediction' = predict(predictor, features)
    /\ UNCHANGED <<featureVars, features, phase, server, setupVars, atStartup,
                   systemVars, trainingVars, httpVars>>

NextPredict == StartSystem \/ Predict

SpecPredict == InitPredict /\ [][NextPredict]_vars

----------------------------------------------------------------------------
(* HTTP.  A JSON request body is [kind, obj]: "malformed" (no JSON), "null" *)
(* or "object" with its members in obj.  A response is its status, the     *)
(* kind of its body ("json", "html" or "none"), the exception the handler  *)
(* caught ("none" if none was raised) and the payload.                     *)

Malformed == [kind |-> "malformed", obj |-> EmptyRecord]
Null == [kind |-> "null", obj |-> EmptyRecord]
Object(obj) == [kind |-> "object", obj |-> obj]

\* jsonify(...) with a status
Json(status, exception, payload) ==
    [status |-> status, body |-> "json", exception |-> exception, payload |-> payload]

\* BaseHTTPRequestHandler.send_error and Flask's default error pages: an HTML page
Html(status, exception) ==
    [status |-> status, body |-> "html", exception |-> exception, payload |-> <<>>]

\* not data
Falsy(body) == body.kind = "null" \/ body.obj = EmptyRecord

Answer(endpoint, body, resp) ==
    /\ request' = [endpoint |-> endpoint, body |-> body]
    /\ response' = resp

----------------------------------------------------------------------------
(* ml_system/ml_api.py: the handlers *)

SysProjects ==
    {EmptyRecord,
     ("id" :> "p2") @@ ("startDate" :> IsoDate(2, "")) @@ ("endDate" :> IsoDate(2, "")),
     ("id" :> "p3") @@ ("currentProgress" :> 50) @@ ("startDate" :> IsoDate(2, ""))
         @@ ("endDate" :> IsoDate(9, ""))}

SysBodies == {Malformed, Null, Object(EmptyRecord)} \cup {Object("project" :> p) : p \in SysProjects}

SysBatchBodies ==
    {Malformed, Null, Object(EmptyRecord)}
    \cup {Object("projects" :> ps) : ps \in UNION {[1..k -> SysProjects] : k \in 0..MaxBatch}}

\* lines 141-181: predict_delay
SysPredictResponse(self, body, t) ==
    IF body.kind = "malformed" THEN Json(500, "BadRequest", <<>>)
    ELSE IF Falsy(body) \/ "project" \notin DOMAIN body.obj THEN Json(400, "none", <<>>)
    ELSE LET f == extract_features_from_project(body.obj["project"], t)
         IN  IF f.err # "none" THEN Json(500, f.err, <<>>)
             ELSE LET p == predict(self, f.features)
                  IN  IF p.status = "raised" THEN Json(500, p.err, <<>>)
                      ELSE Json(200, "none",
                                [confidence_percentage |-> p.model_confidence,
                                 features_used |-> f.features])

\* lines 195-204: the loop of predict_batch; the first exception ends it
RECURSIVE SysBatchLoop(_, _, _, _)
RECURSIVE SysBatchLoopMutantSkips(_, _, _, _)
SysBatchLoopMutantSkips(self, projects, t, predictions) ==
    IF projects = <<>> THEN [err |-> "none", predictions |-> predictions]
    ELSE LET f == extract_features_from_project(projects[1], t)
         IN  IF f.err # "none" THEN SysBatchLoopMutantSkips(self, Tail(projects), t, predictions)
             ELSE LET p == predict(self, f.features)
                  IN  IF p.status = "raised" THEN [err |-> p.err, predictions |-> <<>>]
                      ELSE SysBatchLoopMutantSkips(self, Tail(projects), t,
                               Append(predictions, [project_id |-> Get(projects[1], "id", "unknown"),
                                                    confidence |-> p.model_confidence]))
SysBatchLoop(self, projects, t, predictions) ==
    IF projects = <<>> THEN [err |-> "none", predictions |-> predictions]
    ELSE LET f == extract_features_from_project(projects[1], t)
         IN  IF f.err # "none" THEN [err |-> f.err, predictions |-> <<>>]
             ELSE LET p == predict(self, f.features)
                  IN  IF p.status = "raised" THEN [err |-> p.err, predictions |-> <<>>]
                      ELSE SysBatchLoop(self, Tail(projects), t,
                               Append(predictions, [project_id |-> Get(projects[1], "id", "unknown"),
                                                    confidence |-> p.model_confidence]))

\* lines 186-216: predict_batch
SysBatchResponse(self, body, t) ==
    IF body.kind = "malformed" THEN Json(500, "BadRequest", <<>>)
    ELSE IF Falsy(body) \/ "projects" \notin DOMAIN body.obj THEN Json(400, "none", <<>>)
    ELSE LET r == SysBatchLoop(self, body.obj["projects"], t, <<>>)
         IN  IF r.err # "none" THEN Json(500, r.err, <<>>)
             ELSE Json(200, "none", [predictions |-> r.predictions,
                                     total_projects |-> Len(r.predictions)])

\* lines 221-248: explain_features
SysExplainResponse(body, t) ==
    IF body.kind = "malformed" THEN Json(500, "BadRequest", <<>>)
    \* line 223: None has no get
    ELSE IF body.kind = "null" THEN Json(500, "AttributeError", <<>>)
    ELSE LET f == extract_features_from_project(Get(body.obj, "project", EmptyRecord), t)
         IN  IF f.err # "none" THEN Json(500, f.err, <<>>)
             ELSE Json(200, "none", [features |-> f.features])

Serving(name) == server = name /\ phase = "serving"

Frame == UNCHANGED <<featureVars, callVars, phase, server, setupVars, atStartup, systemVars, trainingVars>>

\* GET /health, lines 113-119
SysHealth ==
    /\ Serving("ml_system")
    /\ Answer("/health", Null,
              Json(200, "none", [models_loaded |-> predictor.delay_model # None]))
    /\ Frame

\* POST /predict
SysPredict ==
    /\ Serving("ml_system")
    /\ \E body \in SysBodies : Answer("/predict", body, SysPredictResponse(predictor, body, now))
    /\ Frame

\* POST /predict/batch
SysPredictBatch ==
    /\ Serving("ml_system")
    /\ \E body \in SysBatchBodies :
           Answer("/predict/batch", body, SysBatchResponse(predictor, body, now))
    /\ Frame

\* POST /features/explain
SysExplain ==
    /\ Serving("ml_system")
    /\ \E body \in SysBodies : Answer("/features/explain", body, SysExplainResponse(body, now))
    /\ Frame

\* any other URL: the module registers no error handler, Flask answers with its own page
SysNotFound ==
    /\ Serving("ml_system")
    /\ Answer("/unknown", Null, Html(404, "none"))
    /\ Frame

----------------------------------------------------------------------------
(* ml_training/ml_api.py: startup and the handlers *)

RawDelays == {0 - 500, 1234}
MaeValues == {1250}

DefaultDataset == "construction_delay_dataset.csv"

\* os.path.exists(dataset_path): the column set of the file, 0 when there is none
DatasetSchema(files, path) ==
    IF path = DefaultDataset THEN files.dataset
    ELSE IF path = "other.csv" THEN files.other
    ELSE 0

\* a run of the training code: lines 142-145 of delay_predictor.py select the
\* best model only after every fit, so a run that raises before has none
Selects(fail) == fail \in {"none", "save"}

NewRun(id, best, schema, mae) == [id |-> id, best |-> best, schema |-> schema, cv_mae |-> mae]

BestOf(fail) == IF Selects(fail) THEN ModelNames ELSE {"None"}

\* lines 19-54 and 255-259: initialize_predictor, then exit(1) if it left None
StartTraining ==
    /\ server = "ml_training"
    /\ phase = "startup"
    /\ IF disk.model # NoRun
       THEN \* lines 26-29
            /\ delayPredictor' = IF disk.model = CorruptFile THEN None
                                 ELSE load_model(NewDelayPredictor, disk.model)
            /\ disk' = disk
       ELSE \* lines 31-49
            \E fail \in FailPoints, mae \in MaeValues : \E best \in BestOf(fail) :
                LET r == NewRun(1, best, 1, mae)
                IN  /\ delayPredictor' = IF fail = "none"
                                         THEN TrainingRun(NewDelayPredictor, r, fail)
                                         ELSE None
                    /\ disk' = [disk EXCEPT !.dataset = 1,
                                            !.model = IF fail = "none" THEN r ELSE @]
    /\ runs' = 1
    /\ phase' = IF delayPredictor' = None THEN "exited" ELSE "serving"
    /\ atStartup' = <<predictor, delayPredictor'>>
    /\ UNCHANGED <<featureVars, callVars, server, setupVars, systemVars, model_loaded, httpVars>>

TrainingFrame ==
    UNCHANGED <<featureVars, callVars, phase, server, setupVars, atStartup, systemVars, model_loaded>>

\* GET /health, lines 56-63
TrHealth ==
    /\ Serving("ml_training")
    /\ Answer("/health", Null, Json(200, "none", [model_loaded |-> delayPredictor # None]))
    /\ UNCHANGED <<disk, delayPredictor, runs>>
    /\ TrainingFrame

TrBodies == {Malformed, Null} \cup {Object(k) : k \in ProjectKinds \ {"null"}}

\* lines 66-96: predict_delay; an object is told by the kind of its features
TrPredictDelayResponse(self, body, raw) ==
    IF self = None THEN Json(500, "none", <<>>)
    ELSE IF body.kind = "malformed" THEN Json(500, "BadRequest", <<>>)
    ELSE IF body.kind = "null" \/ body.obj = "empty" THEN Json(400, "none", <<>>)
    \* line 77: a list has no get
    ELSE IF body.obj = "list" THEN Json(500, "AttributeError", <<>>)
    ELSE LET p == predict_delay(self, body.obj, raw).result
         IN  IF p.status = "raised" THEN Json(500, p.err, <<>>)
             ELSE Json(200, "none", p)

\* POST /predict-delay
TrPredictDelay ==
    /\ Serving("ml_training")
    /\ \E body \in TrBodies, raw \in RawDelays :
           /\ Answer("/predict-delay", body, TrPredictDelayResponse(delayPredictor, body, raw))
           /\ delayPredictor' = IF delayPredictor = None \/ body.kind # "object"
                                   \/ body.obj \in {"empty", "list"}
                                THEN delayPredictor
                                ELSE predict_delay(delayPredictor, body.obj, raw).self
    /\ UNCHANGED <<disk, runs>>
    /\ TrainingFrame

\* GET /model-info, lines 98-120: training_history holds the fitted estimators
\* and the test arrays of its run, which jsonify cannot serialise
TrModelInfo ==
    /\ Serving("ml_training")
    /\ Answer("/model-info", Null,
              IF delayPredictor = None THEN Json(500, "none", <<>>)
              ELSE IF delayPredictor.training_history # NoRun THEN Json(500, "TypeError", <<>>)
              ELSE Json(200, "none", [model_name |-> delayPredictor.best_model_name.best]))
    /\ UNCHANGED <<disk, delayPredictor, runs>>
    /\ TrainingFrame

RetrainBodies ==
    {Malformed, Null, Object(EmptyRecord), Object("dataset_path" :> "other.csv"),
     Object("dataset_path" :> "missing.csv")}

\* lines 130-131: (request.json or {}).get('dataset_path', default)
RetrainPath(body) == Get(body.obj, "dataset_path", DefaultDataset)

\* POST /retrain, lines 122-165
TrRetrain ==
    /\ Serving("ml_training")
    /\ \E body \in RetrainBodies :
           IF delayPredictor = None
           THEN /\ Answer("/retrain", body, Json(500, "none", <<>>))
                /\ UNCHANGED <<disk, delayPredictor, runs>>
           ELSE IF body.kind = "malformed"
           THEN /\ Answer("/retrain", body, Json(500, "BadRequest", <<>>))
                /\ UNCHANGED <<disk, delayPredictor, runs>>
           ELSE IF DatasetSchema(disk, RetrainPath(body)) = 0
           THEN /\ Answer("/retrain", body, Json(400, "none", <<>>))
                /\ UNCHANGED <<disk, delayPredictor, runs>>
           ELSE /\ runs < 1 + MaxRetrains
                /\ \E fail \in FailPoints, mae \in MaeValues : \E best \in BestOf(fail) :
                       LET r == NewRun(runs + 1, best, DatasetSchema(disk, RetrainPath(body)), mae)
                       IN  /\ delayPredictor' = TrainingRun(delayPredictor, r, fail)
                           /\ disk' = IF fail = "none" THEN [disk EXCEPT !.model = r] ELSE disk
                           /\ Answer("/retrain", body,
                                     IF fail = "none"
                                     THEN Json(200, "none", [best_model |-> best])
                                     ELSE Json(500, fail, <<>>))
                /\ runs' = runs + 1
    /\ TrainingFrame

\* GET /feature-importance, lines 167-191
TrFeatureImportance ==
    /\ Serving("ml_training")
    /\ Answer("/feature-importance", Null,
              IF delayPredictor = None THEN Json(500, "none", <<>>)
              ELSE IF delayPredictor.best_model_name = NoRun
                      \/ delayPredictor.feature_importance[delayPredictor.best_model_name.best] = NoRun
              THEN Json(400, "none", <<>>)
              ELSE Json(200, "none", [model_name |-> delayPredictor.best_model_name.best]))
    /\ UNCHANGED <<disk, delayPredictor, runs>>
    /\ TrainingFrame

\* the elements of a batch: in the loop an object without members goes the
\* way of "numeric" and an array the way of null
BatchKinds == {"numeric", "text", "null"}

\* "projects" is absent, is no list, or is a list of project kinds
TrBatchBodies ==
    {Malformed, Null, Object([projects |-> "absent", list |-> <<>>]),
     Object([projects |-> "not a list", list |-> <<>>])}
    \cup {Object([projects |-> "list", list |-> ps]) :
            ps \in UNION {[1..k -> BatchKinds] : k \in 0..MaxBatch}}

\* lines 213-226: the loop of batch_predict; an exception of predict_delay is
\* answered per project, through project.get, which only an object has
RECURSIVE TrBatchLoop(_, _, _, _, _)
TrBatchLoop(self, projects, raw, i, predictions) ==
    IF i > Len(projects) THEN [self |-> self, err |-> "none", predictions |-> predictions]
    ELSE LET call == predict_delay(self, projects[i], raw)
             p == call.result
         IN  IF p.status = "returned"
             THEN TrBatchLoop(call.self, projects, raw, i + 1,
                      Append(predictions, [project_index |-> i - 1, prediction |-> p]))
             \* lines 222-226: the except clause calls project.get
             ELSE IF projects[i] \in {"list", "null"}
                  THEN [self |-> call.self, err |-> "AttributeError", predictions |-> <<>>]
                  ELSE TrBatchLoop(call.self, projects, raw, i + 1,
                           Append(predictions, [project_index |-> i - 1, error |-> p.err]))

\* the loop is reached: lines 197-207 let the request through
BatchReachesLoop(self, body) ==
    self # None /\ body.kind = "object" /\ body.obj.projects = "list"

\* lines 193-237: batch_predict
TrBatchResponse(self, body, raw) ==
    IF self = None THEN Json(500, "none", <<>>)
    ELSE IF body.kind = "malformed" THEN Json(500, "BadRequest", <<>>)
    ELSE IF body.kind = "null" \/ body.obj.projects = "absent" THEN Json(400, "none", <<>>)
    ELSE IF body.obj.projects # "list" THEN Json(400, "none", <<>>)
    ELSE LET r == TrBatchLoop(self, body.obj.list, raw, 1, <<>>)
         IN  IF r.err # "none" THEN Json(500, r.err, <<>>)
             ELSE Json(200, "none",
                       [predictions |-> r.predictions,
                        total_projects |-> Len(body.obj.list),
                        successful_predictions |->
                            Cardinality({j \in DOMAIN r.predictions :
                                            "prediction" \in DOMAIN r.predictions[j]})])

\* POST /batch-predict
TrBatchPredict ==
    /\ Serving("ml_training")
    /\ \E body \in TrBatchBodies, raw \in RawDelays :
           /\ Answer("/batch-predict", body, TrBatchResponse(delayPredictor, body, raw))
           /\ delayPredictor' = IF BatchReachesLoop(delayPredictor, body)
                                THEN TrBatchLoop(delayPredictor, body.obj.list, raw, 1, <<>>).self
                                ELSE delayPredictor
    /\ UNCHANGED <<disk, runs>>
    /\ TrainingFrame

\* any other URL, lines 239-241
TrNotFound ==
    /\ Serving("ml_training")
    /\ Answer("/unknown", Null, Json(404, "none", <<>>))
    /\ UNCHANGED <<disk, delayPredictor, runs>>
    /\ TrainingFrame

----------------------------------------------------------------------------
(* ml_training/simple_ml_api.py *)

\* lines 15-31: the module loads the model when it is imported
StartSimple ==
    /\ server = "simple"
    /\ phase = "startup"
    /\ delayPredictor' = IF disk.model = CorruptFile THEN None
                         ELSE IF disk.model = NoRun THEN NewDelayPredictor
                         ELSE load_model(NewDelayPredictor, disk.model)
    /\ model_loaded' = (disk.model \notin {NoRun, CorruptFile})
    /\ phase' = "serving"
    /\ atStartup' = <<predictor, delayPredictor'>>
    /\ UNCHANGED <<featureVars, callVars, server, setupVars, systemVars, disk, runs, httpVars>>

SimpleFrame ==
    UNCHANGED <<featureVars, callVars, phase, server, setupVars, atStartup, systemVars, disk,
                model_loaded, runs>>

\* lines 34-68: do_GET
SimpleGetResponse(path) ==
    IF path = "/health" THEN Json(200, "none", [model_loaded |-> model_loaded])
    ELSE IF path = "/model-info"
    THEN IF ~model_loaded THEN Html(500, "none")
         ELSE Json(200, "none", [model_name |-> delayPredictor.best_model_name.best])
    ELSE Html(404, "none")

SimpleGet ==
    /\ Serving("simple")
    /\ \E path \in {"/health", "/model-info", "/unknown"} :
           Answer(path, Null, SimpleGetResponse(path))
    /\ UNCHANGED delayPredictor
    /\ SimpleFrame

SimpleBodies == {Malformed} \cup {Object(k) : k \in ProjectKinds}

\* lines 70-110: do_POST
SimplePostResponse(path, body, raw) ==
    IF path # "/predict-delay" THEN Html(404, "none")
    ELSE IF ~model_loaded THEN Html(500, "none")
    \* line 79: json.loads
    ELSE IF body.kind = "malformed" THEN Html(500, "JSONDecodeError")
    ELSE LET p == predict_delay(delayPredictor, body.obj, raw).result
         IN  IF p.status = "raised" THEN Html(500, p.err)
             ELSE Json(200, "none", p)

SimplePost ==
    /\ Serving("simple")
    /\ \E path \in {"/predict-delay", "/unknown"}, body \in SimpleBodies, raw \in RawDelays :
           /\ Answer(path, body, SimplePostResponse(path, body, raw))
           /\ delayPredictor' = IF path = "/predict-delay" /\ model_loaded /\ body.kind = "object"
                                THEN predict_delay(delayPredictor, body.obj, raw).self
                                ELSE delayPredictor
    /\ SimpleFrame

\* lines 112-117: do_OPTIONS
SimpleOptions ==
    /\ Serving("simple")
    /\ Answer("OPTIONS", Null, [status |-> 200, body |-> "none", exception |-> "none",
                                payload |-> <<>>])
    /\ UNCHANGED delayPredictor
    /\ SimpleFrame

----------------------------------------------------------------------------
(* Server specification: one of the three processes starts and answers     *)
(* requests.                                                               *)

Servers == {"ml_system", "ml_training", "simple"}

DiskStates ==
    {[model |-> m, dataset |-> d, other |-> 2] : m \in {NoRun, SavedRun, CorruptFile}, d \in {0, 1}}

InitServers ==
    /\ FeatureVarsIdle
    /\ CallVarsIdle
    /\ server \in Servers
    /\ phase = "startup"
    /\ predictor = NewPredictor
    /\ IF server = "ml_system"
       THEN artifact \in {Files(None, None, None), Files(RandomForest(<<10>>), None, None),
                          TrainedFiles}
       ELSE artifact = Files(None, None, None)
    /\ IF server = "ml_system" THEN disk = NoDisk ELSE disk \in DiskStates
    /\ delayPredictor = None
    /\ model_loaded = FALSE
    /\ runs = 0
    /\ HttpVarsIdle
    /\ SetupVarsIdle

NextServers ==
    \/ StartSystem
    \/ SysHealth
    \/ SysPredict
    \/ SysPredictBatch
    \/ SysExplain
    \/ SysNotFound
    \/ StartTraining
    \/ TrHealth
    \/ TrPredictDelay
    \/ TrModelInfo
    \/ TrRetrain
    \/ TrFeatureImportance
    \/ TrBatchPredict
    \/ TrNotFound
    \/ StartSimple
    \/ SimpleGet
    \/ SimplePost
    \/ SimpleOptions

SpecServers == InitServers /\ [][NextServers]_vars

----------------------------------------------------------------------------
(* Call specification: the two predictors as functions.  Either the        *)
(* ml_system process loads its models and predict is called, or            *)
(* predict_delay is called on a ConstructionDelayPredictor of ml_training  *)
(* that is untrained or holds a loaded model.                              *)

\* what best_model.predict returns, in hundredths of a day
DelayRaws == {0 - 500, 0 - 4, 0, 96, 1234, 10000}

\* cross-validation MAEs of a training run, in hundredths of a day
DelayMaes == {0, 300, 1250}

DelayPredictors ==
    {NewDelayPredictor}
    \cup {load_model(NewDelayPredictor, NewRun(1, best, 1, mae)) :
            best \in ModelNames, mae \in DelayMaes}

InitDelay ==
    /\ FeatureVarsIdle
    /\ CallVarsIdle
    /\ SystemVarsIdle
    /\ SetupVarsIdle
    /\ server = "ml_training"
    /\ phase = "serving"
    /\ disk = NoDisk
    /\ delayPredictor \in DelayPredictors
    /\ model_loaded = FALSE
    /\ runs = 0
    /\ atStartup = <<predictor, delayPredictor>>
    /\ request = NoRequest
    /\ response = NoResponse

\* predictor.predict_delay(project_features)
PredictDelay ==
    /\ server = "ml_training"
    /\ phase = "serving"
    /\ \E project_features \in ProjectKinds, raw \in DelayRaws :
           LET call == predict_delay(delayPredictor, project_features, raw)
           IN  /\ request' = [endpoint |-> "predict_delay", body |-> Object(project_features)]
               /\ prediction' = call.result
               /\ delayPredictor' = call.self
    /\ UNCHANGED <<featureVars, features, phase, server, setupVars, atStartup, systemVars,
                   disk, model_loaded, runs, response>>

InitCalls == InitPredict \/ InitDelay

NextCalls == StartSystem \/ Predict \/ PredictDelay

SpecCalls == InitCalls /\ [][NextCalls]_vars

----------------------------------------------------------------------------
(* The setup scripts: ml_system/setup_ml.py and                            *)
(* ml_training/setup_ml_system.py.  A step of main() is entered, does its  *)
(* work or fails, and main() goes on or exits.                             *)

Entry(name, outcome) == [step |-> name, outcome |-> outcome]

\* what the scripts leave alone
SetupFrame ==
    UNCHANGED <<featureVars, callVars, phase, server, predictor, delayPredictor,
                model_loaded, runs, atStartup, httpVars, script>>

\* the step ran: main() goes on with the next one
GoOn(name, outcome, next) ==
    /\ log' = Append(log, Entry(name, outcome))
    /\ step' = next
    /\ exit_status' = exit_status

\* the step failed: sys.exit(1), or an exception nobody catches
Exit1MutantGoesOn(name) ==
    /\ log' = Append(log, Entry(name, "failed"))
    /\ step' = "create_startup_script"
    /\ exit_status' = exit_status
Exit1(name) ==
    /\ log' = Append(log, Entry(name, "failed"))
    /\ step' = "exited"
    /\ exit_status' = 1

\* the last step ran: the message that setup is complete, and main() returns
Finish(name) ==
    /\ log' = log \o <<Entry(name, "ok"), Entry("complete", "ok")>>
    /\ step' = "exited"
    /\ exit_status' = 0

\* setup_ml.py lines 11-14 and 40
install_requirements ==
    /\ script = "setup_ml"
    /\ step = "install_requirements"
    /\ \E ok \in BOOLEAN :
           IF ok THEN GoOn("install_requirements", "ok", "generate_dataset")
           ELSE Exit1("install_requirements")
    /\ UNCHANGED <<artifact, disk, installed>>
    /\ SetupFrame

\* setup_ml.py lines 16-19 and 43
SysGenerateDataset ==
    /\ script = "setup_ml"
    /\ step = "generate_dataset"
    /\ \E ok \in BOOLEAN :
           IF ok THEN /\ GoOn("generate_dataset", "ok", "train_models")
                      /\ disk' = [disk EXCEPT !.dataset = 1]
           ELSE /\ Exit1("generate_dataset")
                /\ disk' = disk
    /\ UNCHANGED <<artifact, installed>>
    /\ SetupFrame

\* setup_ml.py lines 21-24 and 46-50: train_model.py is run, the message of
\* line 48 is printed and main() returns; start_api is called nowhere
SysTrainModels ==
    /\ script = "setup_ml"
    /\ step = "train_models"
    /\ \E ok \in BOOLEAN :
           IF ok THEN /\ Finish("train_models")
                      /\ artifact' = TrainedFiles
           ELSE /\ Exit1("train_models")
                /\ artifact' = artifact
    /\ UNCHANGED <<disk, installed>>
    /\ SetupFrame

\* setup_ml_system.py lines 33-41 and 215-218
check_python_version ==
    /\ script = "setup_ml_system"
    /\ step = "check_python_version"
    /\ \E ok \in BOOLEAN :
           IF ok THEN GoOn("check_python_version", "ok", "install_dependencies")
           ELSE Exit1("check_python_version")
    /\ UNCHANGED <<artifact, disk, installed>>
    /\ SetupFrame

\* setup_ml_system.py lines 46-56
NumPackages == 9

\* setup_ml_system.py lines 43-61 and 220-224: the packages are installed one
\* after another until one fails; k of them succeed
install_dependencies ==
    /\ script = "setup_ml_system"
    /\ step = "install_dependencies"
    /\ \E k \in 0..NumPackages :
           /\ installed' = k
           /\ IF k = NumPackages
              THEN GoOn("install_dependencies", "ok", "generate_dataset")
              ELSE Exit1("install_dependencies")
    /\ UNCHANGED <<artifact, disk>>
    /\ SetupFrame

\* setup_ml_system.py lines 63-82 and 226-230
generate_dataset ==
    /\ script = "setup_ml_system"
    /\ step = "generate_dataset"
    /\ IF disk.dataset # 0
       THEN /\ GoOn("generate_dataset", "skipped", "train_model")
            /\ disk' = disk
       ELSE \E ok \in BOOLEAN :
                IF ok THEN /\ GoOn("generate_dataset", "ok", "train_model")
                           /\ disk' = [disk EXCEPT !.dataset = 1]
                ELSE /\ Exit1("generate_dataset")
                     /\ disk' = disk
    /\ UNCHANGED <<artifact, installed>>
    /\ SetupFrame

\* setup_ml_system.py lines 84-107 and 232-236: the training run is made on a
\* predictor of its own
train_model ==
    /\ script = "setup_ml_system"
    /\ step = "train_model"
    /\ IF disk.model # NoRun
       THEN /\ GoOn("train_model", "skipped", "test_model")
            /\ disk' = disk
       ELSE \E fail \in FailPoints, mae \in MaeValues : \E best \in BestOf(fail) :
                LET r == NewRun(1, best, disk.dataset, mae)
                    trained == TrainingRun(NewDelayPredictor, r, fail)
                IN  IF fail = "none" /\ trained.best_model = r
                    THEN /\ GoOn("train_model", "ok", "test_model")
                         /\ disk' = [disk EXCEPT !.model = r]
                    ELSE /\ Exit1("train_model")
                         /\ disk' = disk
    /\ UNCHANGED <<artifact, installed>>
    /\ SetupFrame

\* setup_ml_system.py lines 109-160 and 238-242: the sample project has
\* every feature as a number or as a category
test_model ==
    /\ script = "setup_ml_system"
    /\ step = "test_model"
    /\ \E raw \in RawDelays :
           LET loaded == IF disk.model = CorruptFile THEN None
                         ELSE load_model(NewDelayPredictor, disk.model)
           IN  IF loaded # None /\ predict_delay(loaded, "numeric", raw).result.status = "returned"
               THEN GoOn("test_model", "ok", "create_startup_script")
               ELSE Exit1("test_model")
    /\ UNCHANGED <<artifact, disk, installed>>
    /\ SetupFrame

\* setup_ml_system.py lines 162-196 and 244-271: open() may raise, which
\* nobody catches; otherwise the message of line 249 follows
create_startup_script ==
    /\ script = "setup_ml_system"
    /\ step = "create_startup_script"
    /\ \E ok \in BOOLEAN :
           IF ok THEN Finish("create_startup_script")
           ELSE Exit1("create_startup_script")
    /\ UNCHANGED <<artifact, disk, installed>>
    /\ SetupFrame

\* the files the ml_training script may find
SetupDisks ==
    {[model |-> m, dataset |-> d, other |-> 0] : m \in {NoRun, SavedRun, CorruptFile}, d \in {0, 1}}

InitSetup ==
    /\ FeatureVarsIdle
    /\ CallVarsIdle
    /\ HttpVarsIdle
    /\ server = "none"
    /\ phase = "startup"
    /\ predictor = NewPredictor
    /\ delayPredictor = None
    /\ model_loaded = FALSE
    /\ runs = 0
    /\ script \in {"setup_ml", "setup_ml_system"}
    /\ IF script = "setup_ml"
       THEN /\ step = "install_requirements"
            /\ artifact \in {Files(None, None, None), TrainedFiles}
            /\ disk \in {NoDisk, [NoDisk EXCEPT !.dataset = 1]}
       ELSE /\ step = "check_python_version"
            /\ artifact = Files(None, None, None)
            /\ disk \in SetupDisks
    /\ log = <<>>
    /\ installed = 0
    /\ exit_status = NoExit

NextSetup ==
    \/ install_requirements
    \/ SysGenerateDataset
    \/ SysTrainModels
    \/ check_python_version
    \/ install_dependencies
    \/ generate_dataset
    \/ train_model
    \/ test_model
    \/ create_startup_script

SpecSetup == InitSetup /\ [][NextSetup]_vars

----------------------------------------------------------------------------
(* Claims about extract_features_from_project *)

FeatureNames == {"progress_efficiency", "resource_availability", "project_complexity",
                 "weather_impact", "timeline_pressure"}

Returned(c) == c.result.err = "none"

C2_ParsableDatesNeverRaise ==
    \A i \in DOMAIN calls :
        (HasDates(project) /\ project["startDate"].ok /\ project["endDate"].ok)
            => Returned(calls[i])

Paris == <<"P","a","r","i","s">>

\* C3: missing inputs never raise and fall back to fixed constants: without
\* startDate or endDate progress_efficiency is 0.8 and timeline_pressure 0.4;
\* without resources resource_availability is 0.5; without location, or with
\* a location naming no table city, weather_impact is 0.7; an absent
\* totalBudget counts as 1000000 and an absent currentProgress as 0; the
\* empty record yields {0.8, 0.5, 0.012, 0.7, 0.4}.
C3_MissingInputsUseDefaults ==
    \A i \in DOMAIN calls :
        LET c == calls[i]
            f == c.result.features
        IN  /\ ~HasDates(project) =>
                  /\ Returned(c)
                  /\ f["progress_efficiency"] = 800
                  /\ f["timeline_pressure"] = 400
            /\ (Returned(c) /\ DOMAIN project \cap {"humanResources", "materials", "equipment"} = {})
                  => f["resource_availability"] = 500
            /\ (Returned(c) /\ ("location" \notin DOMAIN project \/ project["location"] = Paris))
                  => f["weather_impact"] = 700
            /\ "totalBudget" \notin DOMAIN project =>
                  c.result = extract_features_from_project(project @@ ("totalBudget" :> 1000000), c.at)
            /\ "currentProgress" \notin DOMAIN project =>
                  c.result = extract_features_from_project(project @@ ("currentProgress" :> 0), c.at)
            /\ project = EmptyRecord =>
                  f = [progress_efficiency |-> 800, resource_availability |-> 500,
                       project_complexity |-> 12, weather_impact |-> 700,
                       timeline_pressure |-> 400]

\* C3 witness: the empty record has been converted and gave the default vector
C3_Witness ==
    /\ project = EmptyRecord
    /\ calls # <<>>
    /\ Returned(calls[1])
    /\ calls[1].result.features["project_complexity"] = 12

PuneDelhi == <<"P","u","n","e"," ","D","e","l","h","i">>

\* the risks of the table cities in table order (delhi, mumbai, bangalore,
\* chennai, kolkata, hyderabad, pune, ahmedabad), in thousandths
CityRisks == <<800, 900, 600, 800, 900, 700, 700, 800>>

\* the i-th table city occurs, case-insensitively, in the location
Occurs(i, location) == Contains(Lower(location), weather_risk_map[i][1])

C8_SameRecordSameFeatures ==
    Len(calls) = 2 => calls[1].result = calls[2].result

\* the whole days between two instants, as timedelta.days counts them
WholeDays(a, b) == (a - b) \div TicksPerDay

SameDayCounts(p, t1, t2) ==
    /\ WholeDays(t1, p["startDate"].t) = WholeDays(t2, p["startDate"].t)
    /\ WholeDays(p["endDate"].t, t1) = WholeDays(p["endDate"].t, t2)

\* C8 (amended): the feature vector is a function of the record and of the
\* clock; two calls with the same record agree whenever the record lacks
\* startDate or endDate, or both calls see the same whole-day counts
\* (now - start).days and (end - now).days.
C8_SameRecordSameDayCounts ==
    (Len(calls) = 2 /\ (HasDates(project) => SameDayCounts(project, calls[1].at, calls[2].at)))
        => calls[1].result = calls[2].result

\* C8 witness: two calls at different times of one day on a dated record agree
C8_Witness ==
    /\ Len(calls) = 2
    /\ HasDates(project)
    /\ calls[1].at # calls[2].at
    /\ SameDayCounts(project, calls[1].at, calls[2].at)
    /\ Returned(calls[1])
    /\ calls[1].result = calls[2].result

----------------------------------------------------------------------------
(* Claims about ConstructionDelayPredictor.predict of ml_system *)

PredictReturned == prediction.status = "returned"

\* the number of values of a tuple below 0.1 or above 0.9
ExtremeCount(values) ==
    Cardinality({i \in DOMAIN values : values[i] < 100 \/ values[i] > 900})

\* C4: the overall confidence is within [60,95] for every feature vector
\* handed to _calculate_overall_confidence: 85, less 5 for every value below
\* 0.1 or above 0.9, clamped to at least 60 and at most 95.
C4_OverallConfidenceClamped ==
    PredictReturned =>
        /\ prediction.model_confidence \in 60..95
        /\ prediction.model_confidence =
               Max(60, Min(95, 85 - 5 * ExtremeCount(prediction.features_scaled)))

\* C4 witness: a vector with two extreme values was scored 75
C4_Witness ==
    /\ PredictReturned
    /\ ExtremeCount(prediction.features_scaled) = 2
    /\ prediction.model_confidence = 75

\* C5: the confidence penalty of predict is decided by the input features
\* on their [0,1] scale, whatever the scaler: 85 when all five inputs lie in
\* [0.1,0.9], lowered by 5 only for inputs below 0.1 or above 0.9.
C5_PenaltyOnInputScale ==
    PredictReturned =>
        prediction.model_confidence =
            Max(60, Min(95, 85 - 5 * ExtremeCount(FeatureArray(features))))

RECURSIVE SumOf(_, _)
SumOf(xs, I) ==
    IF I = {} THEN 0
    ELSE LET i == CHOOSE j \in I : TRUE IN xs[i] + SumOf(xs, I \ {i})

RECURSIVE SumSquaresOf(_, _)
SumSquaresOf(xs, I) ==
    IF I = {} THEN 0
    ELSE LET i == CHOOSE j \in I : TRUE IN xs[i] * xs[i] + SumSquaresOf(xs, I \ {i})

\* ci is [max(0, m - 1.96*s), m + 1.96*s] for the rational m = mnum / mden and
\* the population standard deviation s of the values xs[i], i in I, taken to
\* the model's precision: with n = |I| and S their sum, s = sqrt(n*SumSq - S^2) / n
IsInterval(ci, mnum, mden, xs, I) ==
    LET n == Cardinality(I)
        S == SumOf(xs, I)
        V == (n * SumSquaresOf(xs, I) - S * S) * StdPrecision * StdPrecision
        den == 100 * StdPrecision * n
        mean == mnum * (den \div mden)
        r == (ci.upper - mean) \div 196
    IN  /\ ci.den = den
        /\ ci.upper = mean + 196 * r
        /\ r >= 0
        /\ r * r <= V
        /\ V < (r + 1) * (r + 1)
        /\ ci.lower = Max(0, mean - 196 * r)

\* C6: for the Random Forest delay model the interval is
\* [max(0, m - 1.96*s), m + 1.96*s] with m the mean and s the population
\* standard deviation of the predictions of all trees, each counted once.
C6_DelayIntervalFromAllTrees ==
    PredictReturned =>
        LET trees == predictor.delay_model.estimators_
        IN  IsInterval(prediction.delay_confidence_interval,
                       SumOf(trees, DOMAIN trees), Len(trees), trees, DOMAIN trees)

\* C6 witness: a forest of several disagreeing trees gave a proper interval
C6_Witness ==
    /\ PredictReturned
    /\ Len(predictor.delay_model.estimators_) >= 3
    /\ 0 < prediction.delay_confidence_interval.lower
    /\ prediction.delay_confidence_interval.lower < prediction.delay_confidence_interval.upper

\* C7: for the Gradient Boosting cost model the interval is
\* [max(0, f - 1.96*s), f + 1.96*s] with f the final staged prediction and s
\* the population standard deviation of the last 10 staged predictions (of
\* all of them when there are fewer than 10); earlier stages have no influence.
C7_CostIntervalFromLastTenStages ==
    PredictReturned =>
        LET staged == predictor.cost_model.staged
            L == Len(staged)
        IN  IsInterval(prediction.cost_confidence_interval,
                       staged[L], 1, staged, {i \in 1..L : i > L - 10})

\* C7 witness: a model of more than 10 stages whose early stage differs from
\* every one of the last 10, which agree: the interval has no width
C7_Witness ==
    /\ PredictReturned
    /\ Len(predictor.cost_model.staged) > 10
    /\ predictor.cost_model.staged[1] # predictor.cost_model.staged[Len(predictor.cost_model.staged)]
    /\ prediction.cost_confidence_interval.lower = prediction.cost_confidence_interval.upper
    /\ prediction.cost_confidence_interval.upper > 0

----------------------------------------------------------------------------
(* Claims about ConstructionDelayPredictor.predict_delay of ml_training *)

DelayReturned == server = "ml_training" /\ prediction.status = "returned"

\* C14: the confidence_percentage returned by predict_delay is at least 75
\* and at most 95 for every raw model prediction and every cross-validation
\* MAE (tenths of a percent in the model).
C14_ConfidenceBetween75And95 ==
    DelayReturned => prediction.confidence_percentage \in 750..950

\* C15: prediction on an untrained or unloaded predictor fails cleanly:
\* predict raises ValueError when delay_model or cost_model is None,
\* predict_delay raises ValueError when best_model is None, whatever the
\* argument is, and every field of the predictor is left as it was.
C15_UntrainedPredictorRaisesValueError ==
    prediction # NoPrediction =>
        /\ (server = "ml_system" /\ None \in {predictor.delay_model, predictor.cost_model})
               => /\ prediction = PredictRaise("ValueError: Models not trained yet!")
                  /\ predictor = atStartup[1]
        /\ (server = "ml_training" /\ delayPredictor.best_model = NoRun)
               => /\ prediction = [status |-> "raised", err |-> "ValueError"]
                  /\ delayPredictor = atStartup[2]

\* C15 witness: predict_delay was called with null on a predictor nobody
\* trained and raised ValueError
C15_Witness ==
    /\ server = "ml_training"
    /\ delayPredictor = NewDelayPredictor
    /\ request.endpoint = "predict_delay"
    /\ request.body.obj = "null"
    /\ prediction = [status |-> "raised", err |-> "ValueError"]

SystemReturned == server = "ml_system" /\ prediction.status = "returned"

\* C16: every prediction result is free of negative quantities, whatever
\* the raw model outputs are: predict returns predicted_delay_days >= 0,
\* predicted_additional_cost >= 0 and a lower bound >= 0 for both intervals;
\* predict_delay returns predicted_delay_days >= 0 and a lower
\* confidence_interval bound >= 0.
C16_NoNegativeQuantities ==
    /\ SystemReturned =>
           /\ prediction.predicted_delay_days.num >= 0
           /\ prediction.predicted_delay_days.den > 0
           /\ prediction.predicted_additional_cost.num >= 0
           /\ prediction.predicted_additional_cost.den > 0
           /\ prediction.delay_confidence_interval.lower >= 0
           /\ prediction.delay_confidence_interval.den > 0
           /\ prediction.cost_confidence_interval.lower >= 0
           /\ prediction.cost_confidence_interval.den > 0
    /\ DelayReturned =>
           /\ prediction.predicted_delay_days >= 0
           /\ prediction.confidence_interval[1] >= 0

\* C16 witness: a forest whose trees all predict a negative delay was asked
\* and the result reports 0 days and a lower bound of 0
C16_Witness ==
    /\ SystemReturned
    /\ \A i \in DOMAIN predictor.delay_model.estimators_ :
           predictor.delay_model.estimators_[i] < 0
    /\ prediction.predicted_delay_days.num = 0
    /\ prediction.delay_confidence_interval.lower = 0

\* C17: every interval returned with a prediction contains the reported
\* point prediction: lower <= prediction <= upper for the delay and cost
\* intervals of predict and for the confidence_interval of predict_delay,
\* for every raw model output and every spread.
C17_IntervalContainsPrediction ==
    /\ SystemReturned =>
           LET d == prediction.predicted_delay_days
               c == prediction.predicted_additional_cost
               di == prediction.delay_confidence_interval
               ci == prediction.cost_confidence_interval
           IN  /\ di.lower * d.den <= d.num * di.den
               /\ d.num * di.den <= di.upper * d.den
               /\ ci.lower * c.den <= c.num * ci.den
               /\ c.num * ci.den <= ci.upper * c.den
    /\ DelayReturned =>
           /\ prediction.confidence_interval[1] <= prediction.predicted_delay_days
           /\ prediction.predicted_delay_days <= prediction.confidence_interval[2]

----------------------------------------------------------------------------
(* Claims about the setup scripts *)

StepsOf(l) == [i \in 1..Len(l) |-> l[i].step]

IsPrefix(a, b) == Len(a) <= Len(b) /\ \A i \in 1..Len(a) : a[i] = b[i]

\* a failed step is the last one entered and ends the run with status 1
FailureEndsRun ==
    /\ \A i \in 1..Len(log) :
           log[i].outcome = "failed" => (i = Len(log) /\ exit_status = 1 /\ step = "exited")
    /\ exit_status = 1 => (log # <<>> /\ log[Len(log)].outcome = "failed")

\* C12: a successful run of setup_ml.py performs requirement installation,
\* dataset generation, model training and the start of the API service in
\* this order, reports setup as complete only after all of them, and a
\* failing step ends the run with exit status 1 without any later step.
C12_SetupMlStartsApiBeforeComplete ==
    script = "setup_ml" =>
        /\ IsPrefix(StepsOf(log), <<"install_requirements", "generate_dataset",
                                    "train_models", "start_api", "complete">>)
        /\ FailureEndsRun

SetupMlSystemSteps ==
    <<"check_python_version", "install_dependencies", "generate_dataset",
      "train_model", "test_model", "create_startup_script", "complete">>

\* the steps run in the announced order, a failure ends the run, and setup
\* is complete only after six steps without a failure
StepsInOrder ==
    script = "setup_ml_system" =>
        /\ IsPrefix(StepsOf(log), SetupMlSystemSteps)
        /\ FailureEndsRun
        /\ (log # <<>> /\ log[Len(log)].step = "complete") =>
               /\ Len(log) = Len(SetupMlSystemSteps)
               /\ \A i \in 1..Len(log) : log[i].outcome \in {"ok", "skipped"}
               /\ exit_status = 0
        /\ exit_status = 0 => (log # <<>> /\ log[Len(log)].step = "complete")

\* a step that finds its file does no work and leaves the files alone
SkipsWhenFileExists ==
    /\ (script = "setup_ml_system" /\ step = "generate_dataset" /\ disk.dataset # 0)
           => (log' = Append(log, Entry("generate_dataset", "skipped")) /\ disk' = disk)
    /\ (script = "setup_ml_system" /\ step = "train_model" /\ disk.model # NoRun)
           => (log' = Append(log, Entry("train_model", "skipped")) /\ disk' = disk)
    /\ (script = "setup_ml_system" /\ step = "generate_dataset" /\ disk.dataset = 0)
           => log'[Len(log')].outcome # "skipped"
    /\ (script = "setup_ml_system" /\ step = "train_model" /\ disk.model = NoRun)
           => log'[Len(log')].outcome # "skipped"

\* C13: setup_ml_system.py runs its six steps strictly in the announced
\* order; the first failing step exits with status 1 so that no later step
\* runs; dataset generation is skipped when the dataset file exists and
\* training when the model file exists; 'Setup Complete' is reached only
\* when every step succeeded.
C13_SetupMlSystemStepsInOrder ==
    []StepsInOrder /\ [][SkipsWhenFileExists]_vars

\* C13 witness: a run that found the dataset, trained a model and reached
\* 'Setup Complete'
C13_Witness ==
    /\ script = "setup_ml_system"
    /\ exit_status = 0
    /\ Len(log) = Len(SetupMlSystemSteps)
    /\ log[3] = Entry("generate_dataset", "skipped")
    /\ log[4] = Entry("train_model", "ok")
    /\ log[Len(log)].step = "complete"

----------------------------------------------------------------------------
(* Claims about the three servers *)

Predictors == <<predictor, delayPredictor>>

\* C9 (as stated): once startup is over no request changes the process-wide
\* predictor: after any request it is the one loaded at startup.
C9_PredictorAsLoadedAtStartup ==
    phase = "serving" => Predictors = atStartup

\* C9 (amended): once startup is over, no request other than POST /retrain
\* of the ml_training Flask server changes the process-wide predictor.
C9_OnlyRetrainChangesPredictor ==
    [][(phase = "serving" /\ ~(server = "ml_training" /\ request'.endpoint = "/retrain"))
          => Predictors' = Predictors]_vars

\* C9 witness: a prediction was served by the ml_training server and the
\* predictor is the one of startup
C9_Witness ==
    /\ phase = "serving"
    /\ server = "ml_training"
    /\ request.endpoint = "/predict-delay"
    /\ response.status = 200
    /\ delayPredictor.label_encoders # NoRun
    /\ Predictors = atStartup

\* C10: in each of the three servers an exception raised while a request
\* is handled is answered with a JSON error body and status 400 or 500, and
\* no error answer has a body that is not JSON.
C10_ErrorsAnsweredInJson ==
    /\ response.exception # "none" => (response.body = "json" /\ response.status \in {400, 500})
    /\ response.status >= 400 => response.body = "json"

----------------------------------------------------------------------------
(* Claims about the batch endpoints *)

\* the request handled last is a batch of the ml_training server with a list
TrBatchOfList ==
    /\ server = "ml_training"
    /\ request.endpoint = "/batch-predict"
    /\ request.body.kind = "object"
    /\ request.body.obj.projects = "list"

\* C18: in the ml_training batch endpoint a failure on one project does not
\* affect the others: for a list of n projects the response has exactly n
\* entries in input order with project_index 0..n-1, each entry holds
\* exactly one of 'prediction' or 'error', total_projects equals n and
\* successful_predictions is the number of entries that hold a prediction.
C18_BatchEntryPerProject ==
    TrBatchOfList =>
        LET n == Len(request.body.obj.list)
        IN  /\ response.status = 200
            /\ Len(response.payload.predictions) = n
            /\ \A i \in 1..n :
                   LET entry == response.payload.predictions[i]
                   IN  /\ entry.project_index = i - 1
                       /\ ("prediction" \in DOMAIN entry) # ("error" \in DOMAIN entry)
            /\ response.payload.total_projects = n
            /\ response.payload.successful_predictions =
                   Cardinality({i \in 1..n :
                       "prediction" \in DOMAIN response.payload.predictions[i]})

\* the request handled last is a batch of the ml_system server with projects
SysBatchOfProjects ==
    /\ server = "ml_system"
    /\ request.endpoint = "/predict/batch"
    /\ request.body.kind = "object"
    /\ "projects" \in DOMAIN request.body.obj

\* feature extraction or prediction fails for project p
SysFails(p) ==
    LET f == extract_features_from_project(p, now)
    IN  f.err # "none" \/ predict(predictor, f.features).status = "raised"

\* C19: the ml_system batch endpoint is all-or-nothing: when every project
\* of the list can be predicted the response holds one prediction per
\* project in input order and total_projects equals the list length; when
\* feature extraction or prediction fails for any single project the whole
\* request is answered with status 500 and no prediction is returned.
C19_SysBatchAllOrNothing ==
    SysBatchOfProjects =>
        LET projects == request.body.obj["projects"]
            n == Len(projects)
        IN  IF \E i \in 1..n : SysFails(projects[i])
            THEN /\ response.status = 500
                 /\ response.payload = <<>>
            ELSE /\ response.status = 200
                 /\ Len(response.payload.predictions) = n
                 /\ \A i \in 1..n :
                        response.payload.predictions[i].project_id
                            = Get(projects[i], "id", "unknown")
                 /\ response.payload.total_projects = n

\* C19 witness: two different projects were predicted in one batch and a
\* batch with a project whose dates coincide was refused as a whole
C19_Witness ==
    /\ SysBatchOfProjects
    /\ Len(request.body.obj["projects"]) = 2
    /\ response.status = 200
    /\ response.payload.predictions[1].project_id = "p3"
    /\ response.payload.predictions[2].project_id = "unknown"

----------------------------------------------------------------------------
(* Claims about /retrain *)

\* the four fields stem from one and the same training run
Consistent(self) ==
    /\ self.best_model = self.feature_names
    /\ self.feature_names = self.label_encoders
    /\ self.label_encoders = self.training_history

\* C20: after a failed /retrain request (an exception anywhere in loading,
\* preprocessing, training or saving) the process-wide predictor is still
\* consistent: its best_model, feature_names, label_encoders and
\* training_history all stem from one and the same completed training run.
C20_ConsistentAfterFailedRetrain ==
    (/\ server = "ml_training"
     /\ phase = "serving"
     /\ request.endpoint = "/retrain"
     /\ response.status = 500)
        => Consistent(delayPredictor)

=============================================================================
